---- MODULE Spec2Model ----
(***************************************************************************)
(* Pose-graph calibration: the edge-weighting step and predict() of        *)
(* G2OEstimator (slam/aggregation/g2o_estimator.py), the coefficient-space *)
(* generator get_coefs and main() of scripts/aggregation/random_search.py, *)
(* and the grouped random search main() delegates to.                      *)
(*                                                                         *)
(* Numbers are integers: the confidences and multipliers of the program    *)
(* are floats, and every product the program forms is formed here in the   *)
(* same order, (input * std_coef) * rotation_scale.                        *)
(***************************************************************************)
EXTENDS Integers, Sequences, FiniteSets, TLC

VARIABLES
    X,              \* list of edge tables (DataFrames), the argument of predict / random_search
    X0,             \* history: X as it was handed over
    y,              \* list of ground-truth trajectories
    cfg,            \* the estimator's hyperparameters (G2OEstimator.__init__)
    pc,             \* position inside predict
    i,              \* predict: index of the next table of X / next pair of zip(y, preds)
    df_with_coef,   \* predict: the weighted table of the last iteration
    preds,          \* predict: solved trajectories so far
    records,        \* predict: metric records so far
    averaged_metrics, \* predict: the returned record
    verbose,        \* the estimator's verbose flag (G2OEstimator.__init__)
    stdout,         \* what fit and predict have printed, one entry per print call
    vals,           \* get_coefs: the value list
    max_depth,      \* get_coefs: the depth asked for
    stack,          \* get_coefs: current_level of every active call, innermost last
    coefs,          \* get_coefs: the list the innermost finished call returned
    trajs,          \* main: per trajectory name, the prediction frame read, its parent dir, its ground truth
    groups,         \* main: group id per trajectory
    param_distributions, \* main: candidate list per hyperparameter
    n_iter,         \* main: number of trials
    n_jobs,         \* main: number of workers
    output_path,    \* main: where to write the result, if anywhere
    m_pc,           \* position inside main
    samples,        \* random_search: the sampled configurations, in sampling order
    status,         \* random_search: per trial, pending / running / done / failed
    results,        \* random_search: the rows of the finished trials, in order of completion
    table,          \* the table random_search returned
    csv,            \* the file at output_path
    paths,          \* get_path: the matches of rglob, each the name of the file's grandparent directory
    p_pc,           \* position inside get_path
    found,          \* get_path: index in paths of the file returned
    error,          \* get_path: the exception that ended the call
    config,         \* main: the keys of the configuration set, in the order of the dict
    kwargs,         \* main: the optional overrides of the command line
    strides         \* main: the integer strides of the configuration set

predVars == <<X, X0, y, cfg, pc, i, df_with_coef, preds, records, averaged_metrics,
              verbose, stdout>>
coefVars == <<vals, max_depth, stack, coefs>>
mainVars == <<trajs, groups, param_distributions, n_iter, n_jobs, output_path, m_pc,
              samples, status, results, table, csv>>
pathVars == <<paths, p_pc, found, error>>
argVars == <<config, kwargs, strides>>
vars == <<predVars, coefVars, mainVars, pathVars, argVars>>

(***************************************************************************)
(* Bounds and program constants                                            *)
(***************************************************************************)
MaxTraj == 2
MaxVals == 2
MaxDepth == 3
MaxIter == 2
MaxPaths == 3
RecursionLimit == 6

\* g2o_estimator.py:49, the literal 1e7
Fallback == 10000000

Diffs == {1, 2, 50, 60}
CoefMaps == {(1 :> 0), (1 :> 2), (1 :> 2 @@ 60 :> 4)}
CoefLoops == {0, 3}
LoopThresholds == {0, 50}
RotationScales == {1, 2}
MaxIterations == {1000}
GtPool == {9}
ValPool == {1, 2, 4}
NJobs == {1, 2}
OutputPaths == {<<>>, <<"result.csv">>}

\* An absent value is the empty tuple, a present one v the tuple <<v>>.
None == <<>>
Some(v) == <<v>>
The(o) == o[1]

(***************************************************************************)
(* Edges and tables                                                        *)
(***************************************************************************)
mean_cols == {"euler_x", "euler_y", "euler_z", "t_x", "t_y", "t_z"}

std_cols == {"euler_x_confidence", "euler_y_confidence", "euler_z_confidence",
             "t_x_confidence", "t_y_confidence", "t_z_confidence"}

rot_std_cols == {"euler_x_confidence", "euler_y_confidence", "euler_z_confidence"}

all_cols == {"from_index", "to_index"} \cup mean_cols \cup std_cols

\* A row of a prediction table; every column holds a different value, so
\* that a mix-up of columns shows.
MkEdge(f, d, b) ==
    ("from_index" :> f) @@ ("to_index" :> f + d) @@ ("diff" :> d) @@
    ("euler_x" :> 10 + b) @@ ("euler_y" :> 20 + b) @@ ("euler_z" :> 30 + b) @@
    ("t_x" :> 40 + b) @@ ("t_y" :> 50 + b) @@ ("t_z" :> 60 + b) @@
    ("euler_x_confidence" :> b) @@ ("euler_y_confidence" :> b + 1) @@
    ("euler_z_confidence" :> b + 2) @@ ("t_x_confidence" :> b + 3) @@
    ("t_y_confidence" :> b + 4) @@ ("t_z_confidence" :> b + 5)

RowPool == {<<MkEdge(0, d, 1)>> : d \in Diffs} \cup
           {<<MkEdge(0, 1, 1), MkEdge(0, d, 2)>> : d \in Diffs \ {1}}

\* A DataFrame: its rows, and whether all its columns share one dtype.
\* DataFrame.apply(axis=1) hands the function rows cut from df.values; for a
\* single-dtype frame these alias the frame's storage, for a mixed-dtype
\* frame they are copies.  Mutating the row inside the applied function is
\* unsupported by pandas; both outcomes are kept.
TablePool == {[rows |-> r, single_dtype |-> s] : r \in RowPool, s \in BOOLEAN}

SeqsUpTo(S, n) == UNION {[1..k -> S] : k \in 1..n}

Configs == [coef : CoefMaps, coef_loop : CoefLoops, loop_threshold : LoopThresholds,
            rotation_scale : RotationScales, max_iterations : MaxIterations]

(***************************************************************************)
(* G2OEstimator._apply_g2o_coef                                            *)
(***************************************************************************)
StdCoefLoopFirst(row, c) ==
    IF row["diff"] > c.loop_threshold THEN c.coef_loop
    ELSE IF row["diff"] \in DOMAIN c.coef THEN c.coef[row["diff"]]
    ELSE Fallback

StdCoefGeq(row, c) ==
    IF row["diff"] \in DOMAIN c.coef THEN c.coef[row["diff"]]
    ELSE IF row["diff"] >= c.loop_threshold THEN c.coef_loop ELSE Fallback

\* lines 42-49: the scale factor
StdCoef(row, c) ==
    IF row["diff"] \in DOMAIN c.coef
    THEN c.coef[row["diff"]]
    ELSE LET is_loop == row["diff"] > c.loop_threshold
         IN  IF is_loop THEN c.coef_loop ELSE Fallback

ApplyG2OCoefAllRot(row, c) ==
    [k \in DOMAIN row |->
        IF k \in std_cols THEN (row[k] * StdCoef(row, c)) * c.rotation_scale
        ELSE row[k]]

\* lines 51-53: the row after the two in-place multiplications; the row
\* object itself is updated and returned.
ApplyG2OCoef(row, c) ==
    LET scaled == [k \in DOMAIN row |->
                      IF k \in std_cols THEN row[k] * StdCoef(row, c) ELSE row[k]]
    IN  [k \in DOMAIN scaled |->
            IF k \in rot_std_cols THEN scaled[k] * c.rotation_scale ELSE scaled[k]]

\* line 67: df.apply(self._apply_g2o_coef, axis=1), the new frame
DfApply(df, c) ==
    [rows |-> [e \in DOMAIN df.rows |-> ApplyG2OCoef(df.rows[e], c)],
     single_dtype |-> df.single_dtype]

\* line 67 with lines 51-52: what df itself holds after the apply.  The
\* applied function writes into the row it is given; a row that aliases the
\* frame's storage takes the frame with it.
DfAfterApply(df, c) ==
    IF df.single_dtype THEN DfApply(df, c) ELSE df

(***************************************************************************)
(* External collaborators: solver and metrics (call contract only)         *)
(***************************************************************************)
RECURSIVE SumSeq(_)
SumSeq(s) == IF s = <<>> THEN 0 ELSE Head(s) + SumSeq(Tail(s))

Abs(n) == IF n < 0 THEN -n ELSE n

\* GraphOptimizer(max_iterations, online).append(df[all_cols]).get_trajectory():
\* some fixed function of the columns handed over (diff is not among them).
EdgeTerm(row) ==
    (row["to_index"] - row["from_index"]) + (row["t_x"] % 3) +
    (row["t_x_confidence"] % 7) + (row["t_y_confidence"] % 5) +
    (row["t_z_confidence"] % 3) + (row["euler_x_confidence"] % 11) +
    (row["euler_y_confidence"] % 5) + (row["euler_z_confidence"] % 7)

GetTrajectory(df, max_iterations) ==
    SumSeq([e \in DOMAIN df.rows |-> EdgeTerm(df.rows[e])]) + (max_iterations % 7)

\* calculate_metrics(gt_trajectory, predicted_trajectory, rpe_indices)
CalculateMetrics(gt, predicted) ==
    [ATE |-> Abs(gt - predicted), RPE |-> (gt + (2 * predicted)) % 17]

\* average_metrics of no record at all: no number
NoRecords == [ATE |-> -1, RPE |-> -1]

\* average_metrics(records): per-key arithmetic mean
AverageMetrics(recs) ==
    IF recs = <<>> THEN NoRecords
    ELSE [ATE |-> SumSeq([k \in DOMAIN recs |-> recs[k].ATE]) \div Len(recs),
          RPE |-> SumSeq([k \in DOMAIN recs |-> recs[k].RPE]) \div Len(recs)]

(***************************************************************************)
(* G2OEstimator.predict, one loop iteration per step                       *)
(***************************************************************************)
Min(a, b) == IF a < b THEN a ELSE b

\* lines 58-63
PredictEnter ==
    /\ pc = "called"
    /\ pc' = "weighting"
    /\ i' = 1
    /\ preds' = <<>>
    /\ stdout' = IF verbose THEN Append(stdout, "Predicting for") ELSE stdout
    /\ UNCHANGED <<X, X0, y, cfg, df_with_coef, records, averaged_metrics, verbose>>
    /\ UNCHANGED <<coefVars, mainVars, pathVars, argVars>>

\* lines 55-56: fit, called once before predict
Fit ==
    /\ pc = "called"
    /\ stdout = <<>>
    /\ stdout' = Append(stdout, "Running")
    /\ UNCHANGED <<X, X0, y, cfg, pc, i, df_with_coef, preds, records, averaged_metrics,
                   verbose>>
    /\ UNCHANGED <<coefVars, mainVars, pathVars, argVars>>

\* lines 64-72: one iteration of the loop over X, the solver succeeding
PredictWeight ==
    /\ pc = "weighting"
    /\ i <= Len(X)
    /\ df_with_coef' = Some(DfApply(X[i], cfg))
    /\ X' = [X EXCEPT ![i] = DfAfterApply(X[i], cfg)]
    /\ preds' = Append(preds, GetTrajectory(DfApply(X[i], cfg), cfg.max_iterations))
    /\ i' = i + 1
    /\ stdout' = Append(stdout, "Len")
    /\ UNCHANGED <<X0, y, cfg, pc, records, averaged_metrics, verbose>>
    /\ UNCHANGED <<coefVars, mainVars, pathVars, argVars>>

\* lines 64-71: the iteration in which the solver raises; nothing catches it
PredictSolverRaises ==
    /\ pc = "weighting"
    /\ i <= Len(X)
    /\ df_with_coef' = Some(DfApply(X[i], cfg))
    /\ X' = [X EXCEPT ![i] = DfAfterApply(X[i], cfg)]
    /\ pc' = "raised"
    /\ stdout' = Append(stdout, "Len")
    /\ UNCHANGED <<X0, y, cfg, i, preds, records, averaged_metrics, verbose>>
    /\ UNCHANGED <<coefVars, mainVars, pathVars, argVars>>

\* line 74
PredictWeighted ==
    /\ pc = "weighting"
    /\ i > Len(X)
    /\ pc' = "scoring"
    /\ i' = 1
    /\ records' = <<>>
    /\ UNCHANGED <<X, X0, y, cfg, df_with_coef, preds, averaged_metrics, verbose, stdout>>
    /\ UNCHANGED <<coefVars, mainVars, pathVars, argVars>>

\* lines 75-80: one iteration of the loop over zip(y, preds)
PredictScore ==
    /\ pc = "scoring"
    /\ i <= Min(Len(y), Len(preds))
    /\ records' = Append(records, CalculateMetrics(y[i], preds[i]))
    /\ i' = i + 1
    /\ stdout' = stdout \o <<"Trajectory len", ">>>">>
    /\ UNCHANGED <<X, X0, y, cfg, pc, df_with_coef, preds, averaged_metrics, verbose>>
    /\ UNCHANGED <<coefVars, mainVars, pathVars, argVars>>

\* lines 82-86
PredictReturn ==
    /\ pc = "scoring"
    /\ i > Min(Len(y), Len(preds))
    /\ averaged_metrics' = Some(AverageMetrics(records))
    /\ pc' = "returned"
    /\ stdout' = IF verbose THEN Append(stdout, "Predicting completed") ELSE stdout
    /\ UNCHANGED <<X, X0, y, cfg, i, df_with_coef, preds, records, verbose>>
    /\ UNCHANGED <<coefVars, mainVars, pathVars, argVars>>

\* The whole of predict as a function: the record it returns.
RECURSIVE PredsOf(_, _)
PredsOf(tables, c) ==
    IF tables = <<>> THEN <<>>
    ELSE <<GetTrajectory(DfApply(Head(tables), c), c.max_iterations)>>
         \o PredsOf(Tail(tables), c)

PredictFirstRecord(tables, gts, c) ==
    LET p == PredsOf(tables, c)
        n == Min(Len(gts), Len(p))
    IN  IF n = 0 THEN NoRecords ELSE CalculateMetrics(gts[1], p[1])

Predict(tables, gts, c) ==
    LET p == PredsOf(tables, c)
        n == Min(Len(gts), Len(p))
    IN  AverageMetrics([k \in 1..n |-> CalculateMetrics(gts[k], p[k])])

(***************************************************************************)
(* get_coefs, one call or return per step                                  *)
(***************************************************************************)
\* lines 97-100
BaseCoefs(vs) == [k \in 1..Len(vs) |-> <<vs[k]>>]

CombineCoefsInnerOuter(vs, cs) ==
    [k \in 1..(Len(vs) * Len(cs)) |->
        <<vs[((k - 1) % Len(vs)) + 1]>> \o cs[((k - 1) \div Len(vs)) + 1]]

CombineCoefsZip(vs, cs) ==
    [k \in 1..Min(Len(vs), Len(cs)) |-> <<vs[k]>> \o cs[k]]

\* lines 103-107: for v in vals: for c in coefs: new_coefs.append([v] + c)
CombineCoefs(vs, cs) ==
    [k \in 1..(Len(vs) * Len(cs)) |->
        <<vs[((k - 1) \div Len(cs)) + 1]>> \o cs[((k - 1) % Len(cs)) + 1]]

Top == stack[Len(stack)]
Pop == SubSeq(stack, 1, Len(stack) - 1)

\* lines 96-100: the innermost call is at the last level
GetCoefsBase ==
    /\ stack # <<>>
    /\ coefs = None
    /\ Top = max_depth
    /\ coefs' = Some(BaseCoefs(vals))
    /\ stack' = Pop
    /\ UNCHANGED <<vals, max_depth>>
    /\ UNCHANGED <<predVars, mainVars, pathVars, argVars>>

\* lines 101-102: the innermost call calls get_coefs(vals, current_level + 1, max_depth)
GetCoefsRecurse ==
    /\ stack # <<>>
    /\ coefs = None
    /\ Top # max_depth
    /\ Len(stack) < RecursionLimit
    /\ stack' = Append(stack, Top + 1)
    /\ UNCHANGED <<vals, max_depth, coefs>>
    /\ UNCHANGED <<predVars, mainVars, pathVars, argVars>>

\* lines 103-107: the call it made has returned coefs
GetCoefsCombine ==
    /\ stack # <<>>
    /\ coefs # None
    /\ coefs' = Some(CombineCoefs(vals, The(coefs)))
    /\ stack' = Pop
    /\ UNCHANGED <<vals, max_depth>>
    /\ UNCHANGED <<predVars, mainVars, pathVars, argVars>>

GetCoefsReturned == stack = <<>> /\ coefs # None

(***************************************************************************)
(* main: loading the trajectories (lines 124-138)                          *)
(***************************************************************************)
GroupIdAllVal(parent_dir) ==
    IF parent_dir \in {"val", "test"} THEN Some(0) ELSE None

\* get_predicted_df, lines 77-86: the group of a trajectory from the
\* directory its stride-1 prediction lies in; None stands for the
\* RuntimeError.
GroupId(parent_dir) ==
    IF parent_dir = "val" THEN Some(0)
    ELSE IF parent_dir = "test" THEN Some(1)
    ELSE None

\* lines 128-138, one trajectory name per step
MainLoad ==
    /\ m_pc = "loading"
    /\ Len(X) < Len(trajs)
    /\ LET t == trajs[Len(X) + 1]
       IN  /\ GroupId(t.parent_dir) # None
           /\ X' = Append(X, t.df)
           /\ y' = Append(y, t.gt)
           /\ groups' = Append(groups, The(GroupId(t.parent_dir)))
    /\ UNCHANGED <<X0, cfg, pc, i, df_with_coef, preds, records, averaged_metrics,
                   verbose, stdout>>
    /\ UNCHANGED <<trajs, param_distributions, n_iter, n_jobs, output_path, m_pc,
                   samples, status, results, table, csv>>
    /\ UNCHANGED <<coefVars, pathVars, argVars>>

\* lines 133 and 83-84: get_predicted_df raises, main ends with the error
MainLoadRaises ==
    /\ m_pc = "loading"
    /\ Len(X) < Len(trajs)
    /\ GroupId(trajs[Len(X) + 1].parent_dir) = None
    /\ m_pc' = "exit_error"
    /\ UNCHANGED <<trajs, groups, param_distributions, n_iter, n_jobs, output_path,
                   samples, status, results, table, csv>>
    /\ UNCHANGED <<predVars, coefVars, pathVars, argVars>>

\* lines 140-163: the call of random_search
MainSearch ==
    /\ m_pc = "loading"
    /\ Len(X) = Len(trajs)
    /\ m_pc' = "searching"
    /\ status' = [t \in 1..n_iter |-> "pending"]
    /\ UNCHANGED <<trajs, groups, param_distributions, n_iter, n_jobs, output_path,
                   samples, results, table, csv>>
    /\ UNCHANGED <<predVars, coefVars, pathVars, argVars>>

(***************************************************************************)
(* random_search (slam.aggregation), after sections 4.4 and 5 of the       *)
(* specification: n_iter trials on n_jobs workers.  A worker evaluates its *)
(* trial on its own copy of X, y and groups.                               *)
(***************************************************************************)
Range(s) == {s[k] : k \in DOMAIN s}

\* one value per dimension, each from its candidate list
Candidates(pd) ==
    [coef : Range(pd.coef), coef_loop : Range(pd.coef_loop),
     loop_threshold : Range(pd.loop_threshold),
     rotation_scale : Range(pd.rotation_scale),
     max_iterations : Range(pd.max_iterations)]

\* the elements of s at the indices whose group is g, in order
RECURSIVE OfGroup(_, _, _)
OfGroup(s, gs, g) ==
    IF s = <<>> THEN <<>>
    ELSE (IF Head(gs) = g THEN <<Head(s)>> ELSE <<>>) \o OfGroup(Tail(s), Tail(gs), g)

\* one trial: evaluate per trajectory, aggregate per group, rank on the
\* overall ATE
TrialRow(t, c, Xs, ys, gs) ==
    LET recs == [k \in 1..Len(Xs) |-> Predict(<<Xs[k]>>, <<ys[k]>>, c)]
    IN  [trial |-> t,
         params |-> c,
         metrics |-> [g \in Range(gs) |-> AverageMetrics(OfGroup(recs, gs, g))],
         score |-> AverageMetrics(recs).ATE]

\* the rows in sampling order
BySampling(rs) ==
    [k \in 1..Len(rs) |->
        rs[CHOOSE a \in 1..Len(rs) :
              Cardinality({b \in 1..Len(rs) : rs[b].trial < rs[a].trial}) = k - 1]]

\* stable sort, ascending by score
StableByScore(rs) ==
    [k \in 1..Len(rs) |->
        rs[CHOOSE a \in 1..Len(rs) :
              Cardinality({b \in 1..Len(rs) :
                  \/ rs[b].score < rs[a].score
                  \/ rs[b].score = rs[a].score /\ b < a}) = k - 1]]

SortRowsAsCompleted(rs) == StableByScore(rs)

\* the ranked table: the rows in sampling order, stably sorted by score
SortRows(rs) == StableByScore(BySampling(rs))

Running == {t \in DOMAIN status : status[t] = "running"}
Failed == {t \in DOMAIN status : status[t] = "failed"}

SearchSample ==
    /\ m_pc = "searching"
    /\ Len(samples) < n_iter
    /\ \E c \in Candidates(param_distributions) : samples' = Append(samples, c)
    /\ UNCHANGED <<trajs, groups, param_distributions, n_iter, n_jobs, output_path,
                   m_pc, status, results, table, csv>>
    /\ UNCHANGED <<predVars, coefVars, pathVars, argVars>>

\* a free worker takes the next trial; none is handed out once one has failed
SearchStart ==
    /\ m_pc = "searching"
    /\ Len(samples) = n_iter
    /\ Failed = {}
    /\ Cardinality(Running) < n_jobs
    /\ \E t \in DOMAIN status :
          /\ status[t] = "pending"
          /\ \A u \in 1..(t - 1) : status[u] # "pending"
          /\ status' = [status EXCEPT ![t] = "running"]
    /\ UNCHANGED <<trajs, groups, param_distributions, n_iter, n_jobs, output_path,
                   m_pc, samples, results, table, csv>>
    /\ UNCHANGED <<predVars, coefVars, pathVars, argVars>>

\* a running trial completes
SearchFinish ==
    /\ m_pc = "searching"
    /\ \E t \in Running :
          /\ status' = [status EXCEPT ![t] = "done"]
          /\ results' = Append(results, TrialRow(t, samples[t], X, y, groups))
    /\ UNCHANGED <<trajs, groups, param_distributions, n_iter, n_jobs, output_path,
                   m_pc, samples, table, csv>>
    /\ UNCHANGED <<predVars, coefVars, pathVars, argVars>>

\* the evaluation of a running trial raises (predict catches nothing)
SearchFail ==
    /\ m_pc = "searching"
    /\ \E t \in Running : status' = [status EXCEPT ![t] = "failed"]
    /\ UNCHANGED <<trajs, groups, param_distributions, n_iter, n_jobs, output_path,
                   m_pc, samples, results, table, csv>>
    /\ UNCHANGED <<predVars, coefVars, pathVars, argVars>>

\* every trial is done: the ranked table is returned to main (line 156)
SearchReturn ==
    /\ m_pc = "searching"
    /\ Len(samples) = n_iter
    /\ \A t \in DOMAIN status : status[t] = "done"
    /\ table' = Some(SortRows(results))
    /\ m_pc' = "searched"
    /\ UNCHANGED <<trajs, groups, param_distributions, n_iter, n_jobs, output_path,
                   samples, status, results, csv>>
    /\ UNCHANGED <<predVars, coefVars, pathVars, argVars>>

\* a trial has failed: the error leaves random_search and, uncaught, main
SearchRaise ==
    /\ m_pc = "searching"
    /\ Failed # {}
    /\ m_pc' = "exit_error"
    /\ UNCHANGED <<trajs, groups, param_distributions, n_iter, n_jobs, output_path,
                   samples, status, results, table, csv>>
    /\ UNCHANGED <<predVars, coefVars, pathVars, argVars>>

MainWriteWhatThereIs ==
    /\ m_pc \in {"searched", "exit_error"}
    /\ csv = None
    /\ csv' = IF output_path # None THEN Some(SortRows(results)) ELSE csv
    /\ m_pc' = IF m_pc = "searched" THEN "exit_ok" ELSE m_pc
    /\ output_path # None \/ m_pc = "searched"
    /\ UNCHANGED <<trajs, groups, param_distributions, n_iter, n_jobs, output_path,
                   samples, status, results, table>>
    /\ UNCHANGED <<predVars, coefVars, pathVars, argVars>>

\* lines 165-166, reached only when random_search has returned
MainWrite ==
    /\ m_pc = "searched"
    /\ csv' = IF output_path # None THEN table ELSE csv
    /\ m_pc' = "exit_ok"
    /\ UNCHANGED <<trajs, groups, param_distributions, n_iter, n_jobs, output_path,
                   samples, status, results, table>>
    /\ UNCHANGED <<predVars, coefVars, pathVars, argVars>>

(***************************************************************************)
(* get_path and get_epoch_from_dirname (random_search.py:16-31)            *)
(*                                                                         *)
(* A directory name is the sequence of its characters.                     *)
(***************************************************************************)
Marker == <<"_", "v", "a", "l", "_", "R", "P", "E">>

DirPool ==
    { <<"0", "0", "7">> \o Marker,
      <<"0", "1", "2">> \o Marker,
      <<"a", "b", "0", "1", "2">> \o Marker \o <<"0", "3">>,
      <<"x", "1", "2">> \o Marker,
      <<"1", "_", "2">> \o Marker,
      <<"-", "1", "2">> \o Marker,
      <<"1", "2">> \o Marker,
      <<"r", "u", "n", "0", "1", "2">> }

\* str.find: the 0-based position of the first occurrence, -1 if there is none
Find(str, sub) ==
    LET at == {k \in 0..(Len(str) - Len(sub)) : SubSeq(str, k + 1, k + Len(sub)) = sub}
    IN  IF at = {} THEN -1 ELSE CHOOSE k \in at : \A l \in at : k <= l

\* str[a:b] for b >= 0: a negative a counts from the end
Slice(str, a, b) ==
    LET lo == IF a < 0 THEN (IF Len(str) + a < 0 THEN 0 ELSE Len(str) + a)
              ELSE (IF a > Len(str) THEN Len(str) ELSE a)
        hi == IF b > Len(str) THEN Len(str) ELSE b
    IN  SubSeq(str, lo + 1, hi)

DigitChars == {"0", "1", "2", "3", "7"}
DigitVal(c) == CASE c = "0" -> 0 [] c = "1" -> 1 [] c = "2" -> 2 [] c = "3" -> 3 [] c = "7" -> 7

\* int(str), base 10: an optional sign, then digits, single underscores
\* allowed between digits; None stands for ValueError
RECURSIVE DigitsValue(_, _)
DigitsValue(str, acc) ==
    IF str = <<>> THEN acc
    ELSE IF Head(str) = "_" THEN DigitsValue(Tail(str), acc)
    ELSE DigitsValue(Tail(str), 10 * acc + DigitVal(Head(str)))

IsDigits(str) ==
    /\ str # <<>>
    /\ \A k \in 1..Len(str) : str[k] \in DigitChars \cup {"_"}
    /\ str[1] # "_"
    /\ str[Len(str)] # "_"
    /\ \A k \in 1..(Len(str) - 1) : ~(str[k] = "_" /\ str[k + 1] = "_")

PyInt(str) ==
    IF str # <<>> /\ Head(str) \in {"-", "+"}
    THEN IF IsDigits(Tail(str))
         THEN Some((IF Head(str) = "-" THEN -1 ELSE 1) * DigitsValue(Tail(str), 0))
         ELSE None
    ELSE IF IsDigits(str) THEN Some(DigitsValue(str, 0)) ELSE None

\* lines 16-20: the epoch, or the exception raised
GetEpochFromDirname(dirname) ==
    LET position == Find(dirname, Marker)
    IN  IF position = -1 THEN [raised |-> "RuntimeError"]
        ELSE LET n == PyInt(Slice(dirname, position - 3, position))
             IN  IF n = None THEN [raised |-> "ValueError"] ELSE [epoch |-> The(n)]

HasEpoch(dirname) == "epoch" \in DOMAIN GetEpochFromDirname(dirname)

ArgFirst(ps) == 1

\* line 29, max(paths, key=...): the first of the items with the largest key
ArgMax(ps) ==
    CHOOSE k \in 1..Len(ps) :
        /\ \A l \in 1..Len(ps) :
               GetEpochFromDirname(ps[k]).epoch >= GetEpochFromDirname(ps[l]).epoch
        /\ \A l \in 1..(k - 1) :
               GetEpochFromDirname(ps[l]).epoch < GetEpochFromDirname(ps[k]).epoch

\* lines 26-27: one match is returned as it is
GetPathOne ==
    /\ p_pc = "called"
    /\ Len(paths) = 1
    /\ found' = Some(1)
    /\ p_pc' = "returned"
    /\ UNCHANGED <<paths, error>>
    /\ UNCHANGED <<predVars, coefVars, mainVars, argVars>>

\* lines 28-29: several matches, every key computed
GetPathMax ==
    /\ p_pc = "called"
    /\ Len(paths) > 1
    /\ \A k \in 1..Len(paths) : HasEpoch(paths[k])
    /\ found' = Some(ArgMax(paths))
    /\ p_pc' = "returned"
    /\ UNCHANGED <<paths, error>>
    /\ UNCHANGED <<predVars, coefVars, mainVars, argVars>>

\* lines 28-29 and 17-20: the first key that cannot be computed ends the call
GetPathKeyRaises ==
    /\ p_pc = "called"
    /\ Len(paths) > 1
    /\ \E k \in 1..Len(paths) :
           /\ ~HasEpoch(paths[k])
           /\ \A l \in 1..(k - 1) : HasEpoch(paths[l])
           /\ error' = Some(GetEpochFromDirname(paths[k]).raised)
    /\ p_pc' = "raised"
    /\ UNCHANGED <<paths, found>>
    /\ UNCHANGED <<predVars, coefVars, mainVars, argVars>>

\* lines 30-31: no match
GetPathNone ==
    /\ p_pc = "called"
    /\ Len(paths) = 0
    /\ error' = Some("RuntimeError")
    /\ p_pc' = "raised"
    /\ UNCHANGED <<paths, found>>
    /\ UNCHANGED <<predVars, coefVars, mainVars, argVars>>

(***************************************************************************)
(* main, lines 116-152: from the configuration set to param_distributions  *)
(*                                                                         *)
(* A key of the configuration set is the sequence of its characters; the   *)
(* candidate values, floats up to 1e12, are named by their literals.       *)
(***************************************************************************)
Loops == <<"l", "o", "o", "p", "s">>

ConfigPool ==
    { << <<"1">> >>,
      << <<"1">>, Loops >>,
      << <<"1">>, <<"2">> >>,
      << <<"1">>, <<"2">>, Loops >>,
      << Loops, <<"1">>, <<"1", "0">> >>,
      << <<"1">>, <<"2">>, <<"1", "0">>, Loops >> }

KwargsPool ==
    [coef : {None, Some(<<>>), Some(<<5>>), Some(<<5, 6>>)},
     coef_loop : {None, Some(<<3>>)},
     loop_threshold : {None, Some(<<60>>)},
     rotation_scale : {None, Some(<<2>>)},
     max_iterations : {None, Some(<<100>>)}]

\* truth value of an optional list argument: None and [] are false
Truthy(o) == o # None /\ The(o) # <<>>

\* a or b
Or(o, default) == IF Truthy(o) THEN The(o) ELSE default

\* line 140: [1, 2, 4] + list(np.logspace(1, 6, num=6)) + [1e12]
coef_values ==
    <<"1", "2", "4", "10.0", "100.0", "1000.0", "10000.0", "100000.0", "1000000.0", "1e12">>

\* line 150: np.logspace(-10, 0, 11, base=2)
rotation_scales ==
    <<"2^-10", "2^-9", "2^-8", "2^-7", "2^-6", "2^-5", "2^-4", "2^-3", "2^-2", "2^-1", "1.0">>

\* line 118: [int(stride) for stride in config.keys() if stride != 'loops']
RECURSIVE Strides(_)
Strides(keys) ==
    IF keys = <<>> THEN <<>>
    ELSE IF Head(keys) = Loops THEN Strides(Tail(keys))
    ELSE <<The(PyInt(Head(keys)))>> \o Strides(Tail(keys))

\* dict(zip(ks, c)): pairs up to the shorter of the two, a later pair replacing
\* an earlier one with the same key
DictZip(ks, c) ==
    LET n == Min(Len(ks), Len(c))
    IN  [s \in {ks[k] : k \in 1..n} |->
            c[CHOOSE k \in 1..n : ks[k] = s /\ \A l \in (k + 1)..n : ks[l] # s]]

\* lines 116-118
MainStrides ==
    /\ m_pc = "start"
    /\ strides' = Strides(config)
    /\ m_pc' = "coef"
    /\ UNCHANGED <<trajs, groups, param_distributions, n_iter, n_jobs, output_path,
                   samples, status, results, table, csv>>
    /\ UNCHANGED <<config, kwargs>>
    /\ UNCHANGED <<predVars, coefVars, pathVars>>

\* lines 141-142: the override is the only candidate
MainCoefOverride ==
    /\ m_pc = "coef"
    /\ Truthy(kwargs.coef)
    /\ coefs' = Some(<<The(kwargs.coef)>>)
    /\ m_pc' = "params"
    /\ UNCHANGED <<trajs, groups, param_distributions, n_iter, n_jobs, output_path,
                   samples, status, results, table, csv>>
    /\ UNCHANGED <<vals, max_depth, stack>>
    /\ UNCHANGED <<predVars, pathVars, argVars>>

\* lines 143-144: the call get_coefs(coef_values, 1, len(config.keys()) - 1)
MainGetCoefs ==
    /\ m_pc = "coef"
    /\ ~Truthy(kwargs.coef)
    /\ vals' = coef_values
    /\ max_depth' = Len(config) - 1
    /\ stack' = <<1>>
    /\ coefs' = None
    /\ m_pc' = "params"
    /\ UNCHANGED <<trajs, groups, param_distributions, n_iter, n_jobs, output_path,
                   samples, status, results, table, csv>>
    /\ UNCHANGED <<predVars, pathVars, argVars>>

\* lines 101-102 with the interpreter's bound on the depth of calls: the call
\* that would pass it raises RecursionError, which nothing catches
GetCoefsOverflow ==
    /\ stack # <<>>
    /\ coefs = None
    /\ Top # max_depth
    /\ Len(stack) >= RecursionLimit
    /\ stack' = <<>>
    /\ m_pc' = "recursion_error"
    /\ UNCHANGED <<trajs, groups, param_distributions, n_iter, n_jobs, output_path,
                   samples, status, results, table, csv>>
    /\ UNCHANGED <<vals, max_depth, coefs>>
    /\ UNCHANGED <<predVars, pathVars, argVars>>

\* lines 146-152
MainParams ==
    /\ m_pc = "params"
    /\ GetCoefsReturned
    /\ param_distributions' =
           [coef |-> [k \in 1..Len(The(coefs)) |-> DictZip(strides, The(coefs)[k])],
            coef_loop |-> Or(kwargs.coef_loop, coef_values),
            loop_threshold |-> Or(kwargs.loop_threshold, <<50, 100>>),
            rotation_scale |-> Or(kwargs.rotation_scale, rotation_scales),
            max_iterations |-> Or(kwargs.max_iterations, <<1000>>)]
    /\ m_pc' = "built"
    /\ UNCHANGED <<trajs, groups, n_iter, n_jobs, output_path,
                   samples, status, results, table, csv>>
    /\ UNCHANGED <<predVars, coefVars, pathVars, argVars>>

(***************************************************************************)
(* A direct call estimator.predict(X, y)                                   *)
(***************************************************************************)
PredictIdle ==
    /\ X = <<>>
    /\ X0 = <<>>
    /\ y = <<>>
    /\ cfg = [coef |-> (1 :> 0), coef_loop |-> 0, loop_threshold |-> 0,
              rotation_scale |-> 1, max_iterations |-> 100]
    /\ pc = "idle"
    /\ i = 0
    /\ df_with_coef = None
    /\ preds = <<>>
    /\ records = <<>>
    /\ averaged_metrics = None
    /\ verbose = FALSE
    /\ stdout = <<>>

CoefsIdle ==
    /\ vals = <<>>
    /\ max_depth = 0
    /\ stack = <<>>
    /\ coefs = None

MainIdle ==
    /\ trajs = <<>>
    /\ groups = <<>>
    /\ param_distributions = <<>>
    /\ n_iter = 0
    /\ n_jobs = 0
    /\ output_path = None
    /\ m_pc = "idle"
    /\ samples = <<>>
    /\ status = <<>>
    /\ results = <<>>
    /\ table = None
    /\ csv = None

PathIdle ==
    /\ paths = <<>>
    /\ p_pc = "idle"
    /\ found = None
    /\ error = None

ArgsIdle ==
    /\ config = <<>>
    /\ kwargs = <<>>
    /\ strides = <<>>

Init ==
    /\ X \in SeqsUpTo(TablePool, MaxTraj)
    /\ X0 = X
    /\ y \in [1..Len(X) -> GtPool]
    /\ cfg \in Configs
    /\ pc = "called"
    /\ i = 0
    /\ df_with_coef = None
    /\ preds = <<>>
    /\ records = <<>>
    /\ averaged_metrics = None
    /\ verbose = FALSE
    /\ stdout = <<>>
    /\ CoefsIdle
    /\ MainIdle
    /\ PathIdle
    /\ ArgsIdle

Next ==
    \/ PredictEnter
    \/ PredictWeight
    \/ PredictSolverRaises
    \/ PredictWeighted
    \/ PredictScore
    \/ PredictReturn

Spec == Init /\ [][Next]_vars

(***************************************************************************)
(* A direct call get_coefs(vals, 1, depth), depth >= 1                     *)
(***************************************************************************)
InitCoefs ==
    /\ PredictIdle
    /\ MainIdle
    /\ PathIdle
    /\ ArgsIdle
    /\ vals \in {<<>>} \cup SeqsUpTo(ValPool, MaxVals)
    /\ max_depth \in 1..MaxDepth
    /\ stack = <<1>>
    /\ coefs = None

NextCoefs ==
    \/ GetCoefsBase
    \/ GetCoefsRecurse
    \/ GetCoefsCombine

SpecCoefs == InitCoefs /\ [][NextCoefs]_vars

(***************************************************************************)
(* A run of main                                                           *)
(***************************************************************************)
SearchTables ==
    {[rows |-> <<MkEdge(0, 1, 1)>>, single_dtype |-> FALSE],
     [rows |-> <<MkEdge(0, 1, 1), MkEdge(0, 60, 2)>>, single_dtype |-> TRUE]}

TrajPool ==
    {[df |-> d, parent_dir |-> p, gt |-> g] :
        d \in SearchTables, p \in {"val", "test"}, g \in GtPool}
    \cup {[df |-> d, parent_dir |-> "train", gt |-> g] :
        d \in {[rows |-> <<MkEdge(0, 1, 1)>>, single_dtype |-> FALSE]}, g \in GtPool}

ParamDistributions ==
    {[coef |-> <<(1 :> 0)>>, coef_loop |-> <<0>>, loop_threshold |-> <<50>>,
      rotation_scale |-> <<1>>, max_iterations |-> <<1000>>],
     [coef |-> <<(1 :> 2)>>, coef_loop |-> <<3, 4>>, loop_threshold |-> <<50>>,
      rotation_scale |-> <<2>>, max_iterations |-> <<1000>>]}

InitMain ==
    /\ PredictIdle
    /\ CoefsIdle
    /\ PathIdle
    /\ ArgsIdle
    /\ trajs \in SeqsUpTo(TrajPool, MaxTraj)
    /\ groups = <<>>
    /\ param_distributions \in ParamDistributions
    /\ n_iter \in 1..MaxIter
    /\ n_jobs \in NJobs
    /\ output_path \in OutputPaths
    /\ m_pc = "loading"
    /\ samples = <<>>
    /\ status = <<>>
    /\ results = <<>>
    /\ table = None
    /\ csv = None

NextMain ==
    \/ MainLoad
    \/ MainLoadRaises
    \/ MainSearch
    \/ SearchSample
    \/ SearchStart
    \/ SearchFinish
    \/ SearchFail
    \/ SearchReturn
    \/ SearchRaise
    \/ MainWrite

SpecMain == InitMain /\ [][NextMain]_vars

(***************************************************************************)
(* A direct call estimator.predict(X, y), y of any length from 1 (what      *)
(* average_metrics makes of no record at all is not the estimator's).      *)
(***************************************************************************)
InitEstimator ==
    /\ X \in SeqsUpTo(SearchTables, MaxTraj)
    /\ X0 = X
    /\ y \in SeqsUpTo(GtPool, MaxTraj + 1)
    /\ cfg \in Configs
    /\ pc = "called"
    /\ i = 0
    /\ df_with_coef = None
    /\ preds = <<>>
    /\ records = <<>>
    /\ averaged_metrics = None
    /\ verbose \in BOOLEAN
    /\ stdout = <<>>
    /\ CoefsIdle
    /\ MainIdle
    /\ PathIdle
    /\ ArgsIdle

NextEstimator ==
    \/ Fit
    \/ PredictEnter
    \/ PredictWeight
    \/ PredictSolverRaises
    \/ PredictWeighted
    \/ PredictScore
    \/ PredictReturn

SpecEstimator == InitEstimator /\ [][NextEstimator]_vars

(***************************************************************************)
(* A direct call get_path(prefix, trajectory_name), whatever rglob found   *)
(***************************************************************************)
InitPath ==
    /\ PredictIdle
    /\ CoefsIdle
    /\ MainIdle
    /\ paths \in {<<>>} \cup SeqsUpTo(DirPool, MaxPaths)
    /\ p_pc = "called"
    /\ found = None
    /\ error = None
    /\ ArgsIdle

NextPath ==
    \/ GetPathOne
    \/ GetPathMax
    \/ GetPathKeyRaises
    \/ GetPathNone

SpecPath == InitPath /\ [][NextPath]_vars

(***************************************************************************)
(* A run of main up to param_distributions, over no trajectory             *)
(***************************************************************************)
InitParams ==
    /\ PredictIdle
    /\ CoefsIdle
    /\ PathIdle
    /\ trajs = <<>>
    /\ groups = <<>>
    /\ param_distributions = <<>>
    /\ n_iter \in 1..MaxIter
    /\ n_jobs = 1
    /\ output_path = None
    /\ m_pc = "start"
    /\ samples = <<>>
    /\ status = <<>>
    /\ results = <<>>
    /\ table = None
    /\ csv = None
    /\ config \in ConfigPool
    /\ kwargs \in KwargsPool
    /\ strides = <<>>

NextParams ==
    \/ MainStrides
    \/ MainCoefOverride
    \/ MainGetCoefs
    \/ GetCoefsBase
    \/ GetCoefsRecurse
    \/ GetCoefsCombine
    \/ GetCoefsOverflow
    \/ MainParams

SpecParams == InitParams /\ [][NextParams]_vars

(***************************************************************************)
(* Edge weighting                                                          *)
(***************************************************************************)
\* An iteration of predict's loop has produced df_with_coef from table SrcIdx.
Weighted == df_with_coef # None

SrcIdx == IF pc = "weighting" THEN i - 1 ELSE IF pc = "raised" THEN i ELSE Len(X0)

SrcRow(e) == X0[SrcIdx].rows[e]
OutRow(e) == The(df_with_coef).rows[e]

trans_std_cols == std_cols \ rot_std_cols

\* C1: for every edge whose diff is a key of coef, the weighted edge is the
\* input scaled by coef[diff], whatever loop_threshold and coef_loop are,
\* also when diff > loop_threshold.
C1_CoefTakesPrecedence ==
    Weighted =>
        \A e \in DOMAIN The(df_with_coef).rows :
            SrcRow(e)["diff"] \in DOMAIN cfg.coef =>
                \A k \in trans_std_cols :
                    OutRow(e)[k] = SrcRow(e)[k] * cfg.coef[SrcRow(e)["diff"]]

C1_Witness ==
    /\ Weighted
    /\ \E e \in DOMAIN The(df_with_coef).rows :
          /\ SrcRow(e)["diff"] \in DOMAIN cfg.coef
          /\ SrcRow(e)["diff"] > cfg.loop_threshold
          /\ cfg.coef[SrcRow(e)["diff"]] # cfg.coef_loop
          /\ OutRow(e)["t_x_confidence"] =
                SrcRow(e)["t_x_confidence"] * cfg.coef[SrcRow(e)["diff"]]

\* C2: for every edge whose diff is no key of coef, the scale factor is
\* coef_loop when diff > loop_threshold (strictly) and 1e7 otherwise, also
\* when diff = loop_threshold.
C2_LoopOrFallback ==
    Weighted =>
        \A e \in DOMAIN The(df_with_coef).rows :
            SrcRow(e)["diff"] \notin DOMAIN cfg.coef =>
                \A k \in trans_std_cols :
                    OutRow(e)[k] = SrcRow(e)[k] *
                        (IF SrcRow(e)["diff"] > cfg.loop_threshold
                         THEN cfg.coef_loop ELSE Fallback)

C2_Witness ==
    /\ Weighted
    /\ \E e \in DOMAIN The(df_with_coef).rows :
          /\ SrcRow(e)["diff"] \notin DOMAIN cfg.coef
          /\ SrcRow(e)["diff"] = cfg.loop_threshold
          /\ cfg.coef_loop # Fallback
          /\ OutRow(e)["t_x_confidence"] = SrcRow(e)["t_x_confidence"] * Fallback

\* C3: the weighted edge differs from its input only in the six confidence
\* columns: translation confidence = input * scale factor, rotation
\* confidence = input * scale factor * rotation_scale; the six mean columns,
\* from_index, to_index and diff are the input's.
C3_OnlyConfidencesScaled ==
    Weighted =>
        /\ DOMAIN The(df_with_coef).rows = DOMAIN X0[SrcIdx].rows
        /\ \A e \in DOMAIN The(df_with_coef).rows :
              /\ DOMAIN OutRow(e) = DOMAIN SrcRow(e)
              /\ \A k \in trans_std_cols :
                    OutRow(e)[k] = SrcRow(e)[k] * StdCoef(SrcRow(e), cfg)
              /\ \A k \in rot_std_cols :
                    OutRow(e)[k] =
                        (SrcRow(e)[k] * StdCoef(SrcRow(e), cfg)) * cfg.rotation_scale
              /\ \A k \in mean_cols \cup {"from_index", "to_index", "diff"} :
                    OutRow(e)[k] = SrcRow(e)[k]

C3_Witness ==
    /\ Weighted
    /\ cfg.rotation_scale # 1
    /\ \E e \in DOMAIN The(df_with_coef).rows :
          /\ StdCoef(SrcRow(e), cfg) \notin {0, 1}
          /\ OutRow(e)["t_z_confidence"] # SrcRow(e)["t_z_confidence"]
          /\ OutRow(e)["euler_x_confidence"] # OutRow(e)["t_x_confidence"]
          /\ OutRow(e)["t_z"] = SrcRow(e)["t_z"]

\* C4: after predict has returned, every table of X holds what it held
\* before the call.
C4_InputUntouched ==
    pc = "returned" => X = X0

\* The step-wise predict and the function Predict agree on what is returned.
PredictAgrees ==
    pc = "returned" => averaged_metrics = Some(Predict(X0, y, cfg))

(***************************************************************************)
(* Coefficient-space generation                                            *)
(***************************************************************************)
RECURSIVE Pow(_, _)
Pow(b, e) == IF e = 0 THEN 1 ELSE b * Pow(b, e - 1)

\* C5: get_coefs(vals, 1, depth) returns the Cartesian power vals^depth:
\* len(vals)^depth tuples, each of length depth, every tuple over vals
\* among them.
C5_CartesianPower ==
    GetCoefsReturned =>
        /\ Len(The(coefs)) = Pow(Len(vals), max_depth)
        /\ \A k \in DOMAIN The(coefs) : Len(The(coefs)[k]) = max_depth
        /\ Range(The(coefs)) = [1..max_depth -> Range(vals)]

C5_Witness ==
    /\ GetCoefsReturned
    /\ vals = <<1, 2>>
    /\ max_depth = 2
    /\ The(coefs) = << <<1, 1>>, <<1, 2>>, <<2, 1>>, <<2, 2>> >>

\* C6: the tuples come in lexicographic order of the positions of their
\* components in vals, the first component varying slowest: tuple number k
\* (from 0) has as component j the value at the j-th base-len(vals) digit
\* of k, most significant first.
C6_LexicographicOrder ==
    GetCoefsReturned =>
        \A k \in DOMAIN The(coefs) : \A j \in 1..max_depth :
            /\ j \in DOMAIN The(coefs)[k]
            /\ The(coefs)[k][j] =
                 vals[(((k - 1) \div Pow(Len(vals), max_depth - j)) % Len(vals)) + 1]

C6_Witness ==
    /\ GetCoefsReturned
    /\ vals = <<4, 1>>
    /\ max_depth = 3
    /\ The(coefs)[2] = <<4, 4, 1>>
    /\ The(coefs)[5] = <<1, 4, 4>>

(***************************************************************************)
(* The grouped random search                                               *)
(***************************************************************************)
Returned == table # None

SingleCandidate(pd) ==
    /\ Len(pd.coef) = 1
    /\ Len(pd.coef_loop) = 1
    /\ Len(pd.loop_threshold) = 1
    /\ Len(pd.rotation_scale) = 1
    /\ Len(pd.max_iterations) = 1

OnlyCandidate(pd) ==
    [coef |-> pd.coef[1], coef_loop |-> pd.coef_loop[1],
     loop_threshold |-> pd.loop_threshold[1],
     rotation_scale |-> pd.rotation_scale[1],
     max_iterations |-> pd.max_iterations[1]]

LoadX(ts) == [k \in DOMAIN ts |-> ts[k].df]
LoadY(ts) == [k \in DOMAIN ts |-> ts[k].gt]
LoadGroups(ts) == [k \in DOMAIN ts |-> The(GroupId(ts[k].parent_dir))]

AltGts == GtPool \cup {12}

\* the inputs that agree with ts on every validation trajectory and hold
\* any table and ground truth for the test trajectories
RECURSIVE AltOf(_)
AltOf(ts) ==
    IF ts = <<>> THEN {<<>>}
    ELSE LET heads == IF Head(ts).parent_dir = "val"
                      THEN {Head(ts)}
                      ELSE [df : SearchTables, parent_dir : {Head(ts).parent_dir},
                            gt : AltGts]
         IN  {<<h>> \o r : h \in heads, r \in AltOf(Tail(ts))}

AltTrajs == AltOf(trajs)

\* C9: the aggregate of group 0 in a trial's row is the one the same trial
\* gives on any input that agrees on the validation trajectories and
\* differs in the test trajectories.  (Rows are only ever appended to
\* results: each row is the last one in the state that appended it.)
C9_GroupNonInterference ==
    results # <<>> =>
        \A a \in AltTrajs :
            LET r == results[Len(results)]
                alt == TrialRow(r.trial, r.params, LoadX(a), LoadY(a), LoadGroups(a))
            IN  /\ DOMAIN alt.metrics = DOMAIN r.metrics
                /\ 0 \in DOMAIN r.metrics => alt.metrics[0] = r.metrics[0]

C9_Witness ==
    /\ results # <<>>
    /\ Range(groups) = {0, 1}
    /\ \E a \in AltTrajs :
          LET r == results[Len(results)]
              alt == TrialRow(r.trial, r.params, LoadX(a), LoadY(a), LoadGroups(a))
          IN  /\ alt.metrics[1] # r.metrics[1]
              /\ alt.metrics[0] = r.metrics[0]

\* C10: once the evaluation of a trial has failed, no table is returned,
\* nothing is written, the only way out of the search is the error, and
\* the failed trial is not evaluated again (it has no row).
C10_FailFast ==
    Failed # {} =>
        /\ table = None
        /\ csv = None
        /\ m_pc \in {"searching", "exit_error"}
        /\ m_pc = "searching" => (ENABLED SearchRaise) /\ ~(ENABLED SearchReturn)
        /\ \A t \in Failed : \A k \in DOMAIN results : results[k].trial # t

\* a trial fails after another has completed; main has ended on the error
C10_Witness ==
    /\ Failed # {}
    /\ results # <<>>
    /\ output_path # None
    /\ m_pc = "exit_error"
    /\ csv = None

(***************************************************************************)
(* The estimator's contract                                                *)
(***************************************************************************)
\* C11: predict called with len(X) # len(y) fails: it returns no record.
C11_MismatchFails ==
    Len(X0) # Len(y) => pc # "returned"

(***************************************************************************)
(* The locator                                                             *)
(***************************************************************************)
\* the claim's epoch: the 3 digits right before the marker
ThreeDigits(dirname) ==
    LET position == Find(dirname, Marker)
    IN  SubSeq(dirname, position - 2, position)

WellNamed(dirname) ==
    /\ Find(dirname, Marker) >= 3
    /\ \A k \in 1..3 : ThreeDigits(dirname)[k] \in DigitChars

EpochOf(dirname) ==
    LET d == ThreeDigits(dirname)
    IN  100 * DigitVal(d[1]) + 10 * DigitVal(d[2]) + DigitVal(d[3])

\* C12: get_path ends with an error when nothing matches; when several files
\* match, each under a directory named with 3 digits before the marker, it
\* returns one whose epoch is the largest of all; and whatever it returns has
\* no lower epoch than any other match.
C12_HighestEpoch ==
    /\ Len(paths) = 0 => p_pc # "returned"
    /\ (p_pc = "raised" /\ Len(paths) = 0) => error = Some("RuntimeError")
    /\ (Len(paths) > 1 /\ p_pc # "called" /\ \A k \in 1..Len(paths) : WellNamed(paths[k]))
           => /\ p_pc = "returned"
              /\ \A k \in 1..Len(paths) : EpochOf(paths[The(found)]) >= EpochOf(paths[k])
    /\ p_pc = "returned"
           => \A k \in 1..Len(paths) :
                  (WellNamed(paths[The(found)]) /\ WellNamed(paths[k]))
                      => EpochOf(paths[The(found)]) >= EpochOf(paths[k])

C12_Witness ==
    /\ p_pc = "returned"
    /\ Len(paths) = 3
    /\ \A k \in 1..3 : WellNamed(paths[k])
    /\ EpochOf(paths[1]) < EpochOf(paths[2])
    /\ EpochOf(paths[3]) < EpochOf(paths[2])
    /\ found = Some(2)

\* C13: fit and predict print only when verbose is set: with verbose false
\* nothing has been printed, whatever the input.
C13_QuietUnlessVerbose ==
    ~verbose => stdout = <<>>

(***************************************************************************)
(* The coefficient space main builds                                       *)
(***************************************************************************)
\* C14: the call main makes, get_coefs(coef_values, 1, len(config) - 1),
\* returns for every configuration set with the key '1', with or without
\* 'loops': the recursion never runs past the depth the interpreter allows.
C14_GetCoefsTerminates ==
    m_pc # "recursion_error"

\* C15: with no coef override, every coef candidate of param_distributions
\* has exactly the integer strides of the configuration set as its keys, and
\* there are len(coef_values)^(number of strides) candidates.
C15_OneMultiplierPerStride ==
    (m_pc = "built" /\ ~Truthy(kwargs.coef))
        => /\ \A k \in 1..Len(param_distributions.coef) :
                  DOMAIN param_distributions.coef[k] = Range(strides)
           /\ Len(param_distributions.coef) = Pow(Len(coef_values), Len(strides))

====
